---- MODULE Spec2Model ----
(***************************************************************************)
(* A model of src/player_ai.py: the PlayerAi agent of team "The Wise       *)
(* Riders".  The host engine calls PlayerAi.run once per tick with the     *)
(* elapsed time and a snapshot `info` (team name -> team record); the      *)
(* agent answers with commands on the host's objects.  One action, Run,    *)
(* models one whole call of PlayerAi.run.  The commands a call issues are  *)
(* logged, in order, in `calls`; an exception leaving run is logged in     *)
(* `raised`.                                                               *)
(*                                                                         *)
(* Host objects are records of the fields the code reads:                  *)
(*   my base    [uid, mines, crystal, cost]   cost : kind -> number        *)
(*   enemy base [x, y, mines, crystal, iterable, unpack]                   *)
(*   tank       [uid, position, stopped]                                   *)
(*   ship       [uid, position, owner_distance]                            *)
(*   jet        [uid]                                                      *)
(* owner_distance is what the host's ship.get_distance(owner.x, owner.y)   *)
(* returns.  A team record is a function from the keys it has to lists,    *)
(* so that an absent key and an empty list are different inputs.  Host     *)
(* commands are taken to succeed (tank.goto is wrapped in try/except, so   *)
(* its failure changes nothing the agent keeps).                           *)
(***************************************************************************)
EXTENDS Integers, Sequences, FiniteSets, TLC

VARIABLES
    previous_positions, \* self.previous_positions: uid -> last recorded position
    ntanks,             \* self.ntanks: base uid -> tanks built at that base
    nships,             \* self.nships: base uid -> ships built at that base
    t,                  \* elapsed time given to the last call of run
    info,               \* snapshot given to the last call of run
    calls,              \* commands the last call of run issued, in order
    raised,             \* exception that left the last call of run, or "none"
    nruns,              \* calls of run made on this agent: 0, 1, 2, or 3 for "three or more"
    tank_builds,        \* build_tank commands issued so far, per base uid
    ship_builds         \* build_ship commands issued so far, per base uid

vars == <<previous_positions, ntanks, nships, t, info, calls, raised, nruns,
          tank_builds, ship_builds>>

\* CREATOR, the key of my team in info
TEAM == "The Wise Riders"

\* np.random.random() returns k / RandDen for some k in 0 .. RandDen - 1
RandDen == 2

max_ships_per_base == 6
max_mines_per_base == 3

EmptyMap == [u \in {} |-> 0]

\* dict.get(key, [])
Get(rec, key) == IF key \in DOMAIN rec THEN rec[key] ELSE <<>>

\* info[self.team]: the record of the first entry named TEAM
MyInfo(inf) == inf[CHOOSE i \in 1..Len(inf) : inf[i].name = TEAM].rec

\* [team for name, team in info.items() if name != self.team]
RECURSIVE EnemyTeams(_)
EnemyTeams(inf) ==
    IF inf = <<>> THEN <<>>
    ELSE IF Head(inf).name # TEAM THEN <<Head(inf).rec>> \o EnemyTeams(Tail(inf))
    ELSE EnemyTeams(Tail(inf))

\* 360 * np.random.random(), for the draw k / RandDen
Heading(k) == (360 * k) \div RandDen

Call(uid, op, args) == [obj |-> uid, op |-> op, args |-> args]

(***************************************************************************)
(* Base strategies.  The state st threaded through run's loops is          *)
(*   [previous_positions, ntanks, nships, calls, k, raised]                *)
(* where k counts the random draws consumed so far from the stream rnd.    *)
(***************************************************************************)

\* "If this is a new base, initialize the tank & ship counters"
Register(st, uid) ==
    [st EXCEPT
        !.ntanks = IF uid \in DOMAIN st.ntanks THEN st.ntanks ELSE (uid :> 0) @@ st.ntanks,
        !.nships = IF uid \in DOMAIN st.nships THEN st.nships ELSE (uid :> 0) @@ st.nships]

BuildMine(st, uid) ==
    [st EXCEPT !.calls = Append(@, Call(uid, "build_mine", <<>>))]

BuildTank(st, uid, rnd) ==
    [st EXCEPT !.calls = Append(@, Call(uid, "build_tank", <<Heading(rnd[st.k + 1])>>)),
               !.k = @ + 1,
               !.ntanks[uid] = @ + 1]

BuildShip(st, uid, rnd) ==
    [st EXCEPT !.calls = Append(@, Call(uid, "build_ship", <<Heading(rnd[st.k + 1])>>)),
               !.k = @ + 1,
               !.nships[uid] = @ + 1]

BuildJet(st, uid, rnd) ==
    [st EXCEPT !.calls = Append(@, Call(uid, "build_jet", <<Heading(rnd[st.k + 1])>>)),
               !.k = @ + 1]

\* strategy_early without the cap of 5 on the second tier of tanks
strategy_early_uncapped(st, base, rnd) ==
    LET r == Register(st, base.uid)
        uid == base.uid
    IN  IF base.mines < max_mines_per_base
        THEN IF base.crystal > base.cost["mine"] THEN BuildMine(r, uid) ELSE r
        ELSE IF base.crystal > base.cost["tank"] /\ r.ntanks[uid] < 2
        THEN BuildTank(r, uid, rnd)
        ELSE IF base.crystal > base.cost["ship"] /\ r.nships[uid] < max_ships_per_base
        THEN BuildShip(r, uid, rnd)
        ELSE IF base.crystal > base.cost["tank"] /\ r.nships[uid] >= max_ships_per_base
        THEN BuildTank(r, uid, rnd)
        ELSE IF base.crystal > base.cost["jet"]
        THEN BuildJet(r, uid, rnd)
        ELSE r

\* body of the loop of strategy_early
strategy_early(st, base, rnd) ==
    LET r == Register(st, base.uid)
        uid == base.uid
    IN  IF base.mines < max_mines_per_base
        THEN IF base.crystal > base.cost["mine"] THEN BuildMine(r, uid) ELSE r
        ELSE IF base.crystal > base.cost["tank"] /\ r.ntanks[uid] < 2
        THEN BuildTank(r, uid, rnd)
        ELSE IF base.crystal > base.cost["ship"] /\ r.nships[uid] < max_ships_per_base
        THEN BuildShip(r, uid, rnd)
        ELSE IF /\ base.crystal > base.cost["tank"]
                /\ r.ntanks[uid] < 5
                /\ r.nships[uid] >= max_ships_per_base
        THEN BuildTank(r, uid, rnd)
        ELSE IF base.crystal > base.cost["jet"]
        THEN BuildJet(r, uid, rnd)
        ELSE r

\* strategy_midgame with the mine's affordability tested in the first condition,
\* so that an unaffordable mine falls through to the tank
strategy_midgame_fallthrough(st, base, rnd) ==
    LET r == Register(st, base.uid)
        uid == base.uid
    IN  IF base.mines < 2 /\ base.crystal > base.cost["mine"]
        THEN BuildMine(r, uid)
        ELSE IF base.crystal > base.cost["tank"] /\ r.ntanks[uid] < 2
        THEN BuildTank(r, uid, rnd)
        ELSE IF base.crystal > base.cost["ship"] /\ r.nships[uid] < 2
        THEN BuildShip(r, uid, rnd)
        ELSE IF base.crystal > base.cost["jet"]
        THEN BuildJet(r, uid, rnd)
        ELSE r

\* body of the loop of strategy_midgame
strategy_midgame(st, base, rnd) ==
    LET r == Register(st, base.uid)
        uid == base.uid
    IN  IF base.mines < 2
        THEN IF base.crystal > base.cost["mine"] THEN BuildMine(r, uid) ELSE r
        ELSE IF base.crystal > base.cost["tank"] /\ r.ntanks[uid] < 2
        THEN BuildTank(r, uid, rnd)
        ELSE IF base.crystal > base.cost["ship"] /\ r.nships[uid] < 2
        THEN BuildShip(r, uid, rnd)
        ELSE IF base.crystal > base.cost["jet"]
        THEN BuildJet(r, uid, rnd)
        ELSE r

\* body of the loop of strategy_lategame
strategy_lategame(st, base, rnd) ==
    LET r == Register(st, base.uid)
    IN  IF base.crystal > base.cost["jet"] THEN BuildJet(r, base.uid, rnd) ELSE r

\* the late phase starting one tick late
PhaseOffByOne(time) ==
    IF time < 180 THEN "early" ELSE IF time <= 360 THEN "mid" ELSE "late"

\* the phase run selects from the elapsed time
Phase(time) ==
    IF time < 180 THEN "early" ELSE IF time < 360 THEN "mid" ELSE "late"

\* for base in myinfo["bases"], with the body of the selected strategy
RECURSIVE ForBases(_, _, _, _)
ForBases(phase, bases, st, rnd) ==
    IF bases = <<>> THEN st
    ELSE LET b == Head(bases)
             nxt == IF phase = "early" THEN strategy_early(st, b, rnd)
                    ELSE IF phase = "mid" THEN strategy_midgame(st, b, rnd)
                    ELSE strategy_lategame(st, b, rnd)
         IN  ForBases(phase, Tail(bases), nxt, rnd)

(***************************************************************************)
(* sorted(seq, key=...): Python's sort is stable.  The list is given as    *)
(* pairs [key, val]; elements with equal keys keep their order.            *)
(***************************************************************************)
RECURSIVE InsertSorted(_, _)
InsertSorted(x, s) ==
    IF s = <<>> THEN <<x>>
    ELSE IF Head(s).key <= x.key THEN <<Head(s)>> \o InsertSorted(x, Tail(s))
    ELSE <<x>> \o s

RECURSIVE SortPairs(_)
SortPairs(s) ==
    IF s = <<>> THEN <<>>
    ELSE InsertSorted(s[Len(s)], SortPairs(SubSeq(s, 1, Len(s) - 1)))

Vals(pairs) == [i \in 1..Len(pairs) |-> pairs[i].val]

\* [base for name in info for base in info[name].get('bases', []) if name != self.team]
RECURSIVE EnemyBases(_)
EnemyBases(inf) ==
    IF inf = <<>> THEN <<>>
    ELSE IF Head(inf).name # TEAM
    THEN Get(Head(inf).rec, "bases") \o EnemyBases(Tail(inf))
    ELSE EnemyBases(Tail(inf))

\* sorted(bases, key=lambda b: (b.x - tank.x) ** 2 + (b.y - tank.y) ** 2)
NearestBases(bases, pos) ==
    Vals(SortPairs([i \in 1..Len(bases) |->
        [key |-> (bases[i].x - pos[1]) * (bases[i].x - pos[1])
               + (bases[i].y - pos[2]) * (bases[i].y - pos[2]),
         val |-> bases[i]]]))

\* The first target computation of run: info[name]["bases"][0] of every
\* other team that has the key "bases".  Its result is overwritten before
\* any use, but indexing an empty list raises IndexError.
FirstBaseRaises(inf) ==
    /\ Len(inf) > 1
    /\ \E i \in 1..Len(inf) :
          /\ inf[i].name # TEAM
          /\ "bases" \in DOMAIN inf[i].rec
          /\ inf[i].rec["bases"] = <<>>

\* tank.goto(*tank_target) inside try/except: tank_target is the host's base
\* object, and what unpacking it yields is the host's business, given here by
\* the base's fields iterable and unpack: when the object is not iterable the
\* TypeError is swallowed and goto is never invoked, else goto receives the
\* tuple the object iterates to.
TankGoto(st, tank, tank_target) ==
    IF ~tank_target.iterable THEN st
    ELSE [st EXCEPT !.calls = Append(@, Call(tank.uid, "goto", tank_target.unpack))]

SetHeading(st, uid, rnd) ==
    [st EXCEPT !.calls = Append(@, Call(uid, "set_heading", <<Heading(rnd[st.k + 1])>>)),
               !.k = @ + 1]

Record(st, unit) ==
    [st EXCEPT !.previous_positions =
        (unit.uid :> unit.position) @@ st.previous_positions]

\* TankStep turning a tank it has no recorded position for
TankStepUntracked(st, tank, inf, rnd) ==
    LET nearest_base == NearestBases(EnemyBases(inf), tank.position)
        moved ==
            IF ~tank.stopped
            THEN IF tank.uid \notin DOMAIN st.previous_positions
                    \/ tank.position = st.previous_positions[tank.uid]
                 THEN SetHeading(st, tank.uid, rnd)
                 ELSE IF nearest_base # <<>>
                 THEN TankGoto(st, tank, nearest_base[1])
                 ELSE st
            ELSE st
    IN  Record(moved, tank)

\* body of the loop over my tanks
TankStep(st, tank, inf, rnd) ==
    LET nearest_base == NearestBases(EnemyBases(inf), tank.position)
        moved ==
            IF tank.uid \in DOMAIN st.previous_positions /\ ~tank.stopped
            THEN IF tank.position = st.previous_positions[tank.uid]
                 THEN SetHeading(st, tank.uid, rnd)
                 ELSE IF nearest_base # <<>>
                 THEN TankGoto(st, tank, nearest_base[1])
                 ELSE st
            ELSE st
    IN  Record(moved, tank)

\* body of the loop over my ships
ShipStep(st, ship, rnd) ==
    LET moved ==
            IF ship.uid \in DOMAIN st.previous_positions
            THEN IF ship.position = st.previous_positions[ship.uid]
                 THEN IF ship.owner_distance > 20
                      THEN [st EXCEPT !.calls =
                               Append(@, Call(ship.uid, "convert_to_base", <<>>))]
                      ELSE SetHeading(st, ship.uid, rnd)
                 ELSE st
            ELSE st
    IN  Record(moved, ship)

RECURSIVE ForTanks(_, _, _, _)
ForTanks(tanks, st, inf, rnd) ==
    IF tanks = <<>> THEN st
    ELSE ForTanks(Tail(tanks), TankStep(st, Head(tanks), inf, rnd), inf, rnd)

RECURSIVE ForShips(_, _, _)
ForShips(ships, st, rnd) ==
    IF ships = <<>> THEN st
    ELSE ForShips(Tail(ships), ShipStep(st, Head(ships), rnd), rnd)

\* base.mines * 10 + base.crystal / 10, times 10 to stay in the integers
determine_base_power(base) == base.mines * 100 + base.crystal

RECURSIVE SumPower(_)
SumPower(bases) ==
    IF bases = <<>> THEN 0
    ELSE determine_base_power(Head(bases)) + SumPower(Tail(bases))

\* 100 * len(bases) + sum of the bases' powers, times 10
determine_power(team) ==
    1000 * Len(Get(team, "bases")) + SumPower(Get(team, "bases"))

\* The target of the jets; <<>> stands for None.
JetTarget(inf) ==
    IF Len(inf) > 1
    THEN LET teams == EnemyTeams(inf)
             by_power == Vals(SortPairs([i \in 1..Len(teams) |->
                             [key |-> determine_power(teams[i]), val |-> teams[i]]]))
         IN  IF by_power # <<>>
             THEN LET strongest_enemy == by_power[Len(by_power)]
                  IN  IF "bases" \notin DOMAIN strongest_enemy
                      THEN <<75, 75>>
                      ELSE LET bs == strongest_enemy["bases"]
                               strongest_base == Vals(SortPairs([i \in 1..Len(bs) |->
                                   [key |-> determine_base_power(bs[i]), val |-> bs[i]]]))
                           IN  IF strongest_base = <<>>
                               THEN <<75, 75>>
                               ELSE <<strongest_base[Len(strongest_base)].x,
                                      strongest_base[Len(strongest_base)].y>>
             ELSE <<>>
    ELSE <<>>

\* for jet in myinfo["jets"]: if target is not None: jet.goto(*target)
RECURSIVE ForJets(_, _, _)
ForJets(jets, st, target) ==
    IF jets = <<>> THEN st
    ELSE ForJets(Tail(jets),
                 IF target # <<>>
                 THEN [st EXCEPT !.calls = Append(@, Call(Head(jets).uid, "goto", target))]
                 ELSE st,
                 target)

(***************************************************************************)
(* PlayerAi.run on agent state (pp, nt, ns), with the random stream rnd.   *)
(* The result is the loop state extended with `raised`.                    *)
(***************************************************************************)
RunResult(pp, nt, ns, time, inf, rnd) ==
    LET myinfo == MyInfo(inf)
        st0 == [previous_positions |-> pp, ntanks |-> nt, nships |-> ns,
                calls |-> <<>>, k |-> 0, raised |-> "none"]
    IN  IF "bases" \notin DOMAIN myinfo
        THEN [st0 EXCEPT !.raised = "KeyError"]      \* myinfo["bases"] in the strategy
        ELSE LET s1 == ForBases(Phase(time), myinfo["bases"], st0, rnd)
             IN  IF FirstBaseRaises(inf)
                 THEN [s1 EXCEPT !.raised = "IndexError"]
                 ELSE LET s2 == ForTanks(Get(myinfo, "tanks"), s1, inf, rnd)
                          s3 == ForShips(Get(myinfo, "ships"), s2, rnd)
                      IN  ForJets(Get(myinfo, "jets"), s3, JetTarget(inf))

\* how many commands `op` the sequence cs holds for object uid
RECURSIVE Count(_, _, _)
Count(cs, uid, op) ==
    IF cs = <<>> THEN 0
    ELSE (IF Head(cs).obj = uid /\ Head(cs).op = op THEN 1 ELSE 0)
         + Count(Tail(cs), uid, op)

\* the streams of n random draws
Draws(n) == [1..n -> 0..(RandDen - 1)]

\* no call draws more often than once per base, tank and ship of mine
MaxDraws(inf) ==
    Len(Get(MyInfo(inf), "bases")) + Len(Get(MyInfo(inf), "tanks"))
        + Len(Get(MyInfo(inf), "ships"))

\* the uids of the bases of mine that the snapshots hold
BaseUids == {1, 2}

Init ==
    /\ previous_positions = EmptyMap
    /\ ntanks = EmptyMap
    /\ nships = EmptyMap
    /\ t = 0
    /\ info = <<>>
    /\ calls = <<>>
    /\ raised = "none"
    /\ nruns = 0
    /\ tank_builds = [u \in BaseUids |-> 0]
    /\ ship_builds = [u \in BaseUids |-> 0]

\* One call run(time, dt, inf, game_map) by the host.
Run(time, inf) ==
    LET zero == [i \in 1..MaxDraws(inf) |-> 0]
        n == RunResult(previous_positions, ntanks, nships, time, inf, zero).k
    IN  \E rnd \in Draws(n) :
          \E r \in {RunResult(previous_positions, ntanks, nships, time, inf, rnd)} :
              /\ previous_positions' = r.previous_positions
              /\ ntanks' = r.ntanks
              /\ nships' = r.nships
              /\ t' = time
              /\ info' = inf
              /\ calls' = r.calls
              /\ raised' = r.raised
              /\ nruns' = IF nruns < 3 THEN nruns + 1 ELSE nruns
              /\ tank_builds' = [u \in BaseUids |->
                                    tank_builds[u] + Count(r.calls, u, "build_tank")]
              /\ ship_builds' = [u \in BaseUids |->
                                    ship_builds[u] + Count(r.calls, u, "build_ship")]

(***************************************************************************)
(* Inputs.  A snapshot is the list of info's items, in the dict's order.   *)
(***************************************************************************)
Team(name, rec) == [name |-> name, rec |-> rec]

Snapshot(myrec, enemies) == <<Team(TEAM, myrec)>> \o enemies

\* elapsed times on both sides of the two phase boundaries
Times == {179, 180, 359, 360}

\* base.cost(kind): the host's price list, in units of 500 crystal, and one
\* where ships are cheaper than tanks
CostTables ==
    { [mine |-> 2, tank |-> 1, ship |-> 4, jet |-> 8],
      [mine |-> 1, tank |-> 4, ship |-> 2, jet |-> 8] }

Crystals == {1, 2, 3, 5, 9}
Mines == {0, 2, 3}

MyBases(uid) ==
    { [uid |-> uid, mines |-> m, crystal |-> c, cost |-> tbl] :
        m \in Mines, c \in Crystals, tbl \in CostTables }

\* One base of mine in every combination, alone in the world; the rich ones
\* also beside an enemy whose list of bases is empty, and before a second
\* base of mine that has no mine yet.
BuildSnapshots ==
    LET myrecs == {EmptyMap, [bases |-> <<>>]}
                  \cup { [bases |-> <<b>>] : b \in MyBases(1) }
        rich == { b \in MyBases(1) : b.crystal = 9 /\ b.mines = 3 }
        second == CHOOSE b \in MyBases(2) :
                     b.mines = 0 /\ b.crystal = 9 /\ b.cost["mine"] = 2
    IN  { Snapshot(m, <<>>) : m \in myrecs }
        \cup { Snapshot([bases |-> <<b>>], <<Team("E1", [bases |-> <<>>])>>) : b \in rich }
        \cup { Snapshot([bases |-> <<b, second>>], <<>>) : b \in rich }

NextBuild == \E time \in Times, inf \in BuildSnapshots : Run(time, inf)

SpecBuild == Init /\ [][NextBuild]_vars

EnemyBase(x, y, mines, crystal, iterable) ==
    [x |-> x, y |-> y, mines |-> mines, crystal |-> crystal,
     iterable |-> iterable, unpack |-> <<x, y>>]

P0 == <<0, 0>>
P1 == <<10, 0>>

\* bA and bC are equally near to P0, bB is nearest to P1
bA == EnemyBase(2, 0, 1, 20, TRUE)
bB == EnemyBase(9, 0, 1, 20, TRUE)
bC == EnemyBase(0, 2, 1, 20, TRUE)
bN == EnemyBase(2, 0, 1, 20, FALSE)

Tank(uid, pos, stopped) == [uid |-> uid, position |-> pos, stopped |-> stopped]
Ship(uid, pos, dist) == [uid |-> uid, position |-> pos, owner_distance |-> dist]
Jet(uid) == [uid |-> uid]

TankLists ==
    { <<Tank(11, p, s)>> : p \in {P0, P1}, s \in BOOLEAN }

ShipLists ==
    { <<Ship(21, p, d)>> : p \in {P0, P1}, d \in {20, 21} }

\* a record with key `key` absent, or set to one of `lists`
Optional(key, lists) == {EmptyMap} \cup { (key :> l) : l \in lists }

UnitEnemies ==
    { <<>>,
      <<Team("E1", EmptyMap)>>,
      <<Team("E1", [bases |-> <<>>])>>,
      <<Team("E1", [bases |-> <<bA>>])>>,
      <<Team("E1", [bases |-> <<bN>>])>>,
      <<Team("E1", [bases |-> <<bB, bA>>])>>,
      <<Team("E1", [bases |-> <<bC, bA>>])>>,
      <<Team("E1", [bases |-> <<bB>>]), Team("E2", [bases |-> <<bA>>])>>,
      <<Team("E1", [bases |-> <<bA>>]), Team("E2", [bases |-> <<>>])>> }

\* My tanks before every enemy line-up, my ships with and without a tank
\* beside them; one snapshot in which my team has no key "bases".
UnitSnapshots ==
    LET mine == [bases |-> <<>>]
        tanks == Optional("tanks", {<<>>} \cup TankLists)
        ships == Optional("ships", {<<>>} \cup ShipLists)
        beside == {EmptyMap, [tanks |-> <<Tank(11, P0, FALSE)>>]}
    IN  { Snapshot(tk @@ mine, e) : tk \in tanks, e \in UnitEnemies }
        \cup { Snapshot(sh @@ tk @@ mine, e) :
                 sh \in ships, tk \in beside,
                 e \in {<<>>, <<Team("E1", [bases |-> <<>>])>>} }
        \cup { Snapshot([tanks |-> <<Tank(11, P0, FALSE)>>], <<>>) }

UnitTimes == {179, 360}

NextUnits == \E time \in UnitTimes, inf \in UnitSnapshots : Run(time, inf)

SpecUnits == Init /\ [][NextUnits]_vars

\* enemy bases for the power ranking: scores 0, 12, 12 and 30.5
bW == EnemyBase(10, 10, 0, 0, FALSE)
bM == EnemyBase(20, 30, 1, 20, FALSE)
bK == EnemyBase(40, 50, 0, 120, FALSE)
bR == EnemyBase(60, 70, 3, 5, FALSE)

JetEnemyRecs ==
    Optional("bases", { <<>>, <<bW>>, <<bM>>, <<bR>>,
                        <<bM, bK>>, <<bK, bM>>, <<bW, bW>> })

JetEnemies ==
    {<<>>}
    \cup { <<Team("E1", r)>> : r \in JetEnemyRecs }
    \cup { <<Team("E1", r1), Team("E2", r2)>> : r1 \in JetEnemyRecs, r2 \in JetEnemyRecs }

\* My jets before every enemy line-up; my team after the first enemy in the
\* dict's order; one snapshot in which my team has no key "bases".
JetSnapshots ==
    LET mine == [bases |-> <<>>]
        jets == Optional("jets", { <<>>, <<Jet(31), Jet(32)>> })
    IN  { Snapshot(j @@ mine, e) : j \in jets, e \in JetEnemies }
        \cup { <<Team("E1", [bases |-> <<bM>>]),
                 Team(TEAM, [bases |-> <<>>, jets |-> <<Jet(31)>>]),
                 Team("E2", r)>> : r \in JetEnemyRecs }
        \cup { Snapshot([jets |-> <<Jet(31)>>], <<Team("E1", [bases |-> <<bM>>])>>) }

NextJets == \E time \in UnitTimes, inf \in JetSnapshots : Run(time, inf)

SpecJets == Init /\ [][NextJets]_vars

(***************************************************************************)
(* Properties.  State predicates speak of the last call of run (t, info,   *)
(* calls, raised); action formulas relate the agent before a call          *)
(* (unprimed) to the call's arguments and commands (primed).               *)
(***************************************************************************)
Items(seq) == { seq[i] : i \in 1..Len(seq) }

\* myinfo.get(key, []) of a snapshot; no list before the first call
ListOf(inf, key) == IF inf = <<>> THEN <<>> ELSE Get(MyInfo(inf), key)

BuildOps == {"build_mine", "build_tank", "build_ship", "build_jet"}

\* the commands of cs on object uid whose name is in ops, in order
CallsOn(cs, uid, ops) == SelectSeq(cs, LAMBDA c : c.obj = uid /\ c.op \in ops)

\* the names of the build commands of cs on base uid, in order
BuildsOn(cs, uid) ==
    LET b == CallsOn(cs, uid, BuildOps) IN [i \in 1..Len(b) |-> b[i].op]

Counter(f, uid) == IF uid \in DOMAIN f THEN f[uid] ELSE 0

HeadingInRange(c) == Len(c.args) = 1 /\ c.args[1] >= 0 /\ c.args[1] < 360

\* the rules after the mine rule, first match
LaterRules(phase, base, nt, ns) ==
    IF base.crystal > base.cost["tank"] /\ nt < 2 THEN <<"build_tank">>
    ELSE IF base.crystal > base.cost["ship"] /\ ns < (IF phase = "early" THEN 6 ELSE 2)
    THEN <<"build_ship">>
    ELSE IF phase = "early" /\ base.crystal > base.cost["tank"] /\ nt < 5 /\ ns >= 6
    THEN <<"build_tank">>
    ELSE IF base.crystal > base.cost["jet"] THEN <<"build_jet">>
    ELSE <<>>

MineCap(phase) == IF phase = "early" THEN 3 ELSE 2

\* C2 as claimed: the mine rule matches only when the mine is affordable too
ClaimedBuild(phase, base, nt, ns) ==
    IF base.mines < MineCap(phase) /\ base.crystal > base.cost["mine"]
    THEN <<"build_mine">>
    ELSE LaterRules(phase, base, nt, ns)

\* C2 as amended: the mine rule matches on the mine count alone
AmendedBuild(phase, base, nt, ns) ==
    IF base.mines < MineCap(phase)
    THEN IF base.crystal > base.cost["mine"] THEN <<"build_mine">> ELSE <<>>
    ELSE LaterRules(phase, base, nt, ns)

\* C1: run never raises on a snapshot whose keys "bases", "tanks", "ships",
\* "jets" are each absent, empty or non-empty (every snapshot here is one).
C1_NeverRaises == raised = "none"

\* C2 (as claimed): in the early and mid phases the build issued for a base is
\* the first rule of the chain mine, tank, ship, [early: second tank tier], jet
\* whose count condition and affordability both hold; an unaffordable mine
\* falls through to the following rules.
C2_FirstMatchAffordable ==
    [][\A b \in Items(ListOf(info', "bases")) :
          Phase(t') # "late" =>
             BuildsOn(calls', b.uid) =
                ClaimedBuild(Phase(t'), b, Counter(ntanks, b.uid), Counter(nships, b.uid))]_vars

\* C2 (amended): in the early and mid phases a base with mines below the
\* phase cap is issued build_mine when crystal > cost(mine) and no build at
\* all otherwise; only a base with mines at the cap gets the first of the
\* following rules whose count condition and affordability both hold.
C2_MineRuleBlocks ==
    [][\A b \in Items(ListOf(info', "bases")) :
          Phase(t') # "late" =>
             BuildsOn(calls', b.uid) =
                AmendedBuild(Phase(t'), b, Counter(ntanks, b.uid), Counter(nships, b.uid))]_vars

\* C2 witness: an early or mid call on a base below the mine cap that cannot
\* afford the mine but can afford a tank, and has built fewer than 2: no build.
C2_Witness ==
    /\ nruns > 0 /\ Phase(t) # "late"
    /\ \E b \in Items(ListOf(info, "bases")) :
          /\ b.mines < MineCap(Phase(t))
          /\ b.crystal <= b.cost["mine"]
          /\ b.crystal > b.cost["tank"]
          /\ ntanks[b.uid] < 2
          /\ BuildsOn(calls, b.uid) = <<>>

\* C3 (as claimed): at every elapsed time a base with mines = 0 and
\* crystal > cost(mine) is issued build_mine and no other build.
C3_MineFirstAnyPhase ==
    \A b \in Items(ListOf(info, "bases")) :
        (b.mines = 0 /\ b.crystal > b.cost["mine"]) =>
            BuildsOn(calls, b.uid) = <<"build_mine">>

\* C3 (amended): at elapsed times below 360 a base with mines = 0 and
\* crystal > cost(mine) is issued build_mine and no other build; from 360 on
\* it is issued no build_mine: build_jet when crystal > cost(jet), else nothing.
C3_MineFirstBeforeLate ==
    \A b \in Items(ListOf(info, "bases")) :
        (b.mines = 0 /\ b.crystal > b.cost["mine"]) =>
            BuildsOn(calls, b.uid) =
                IF t < 360 THEN <<"build_mine">>
                ELSE IF b.crystal > b.cost["jet"] THEN <<"build_jet">>
                ELSE <<>>

\* C3 witness: the last tick of the mid phase, a base without mines that can
\* afford one, and build_mine issued on it.
C3_Witness ==
    /\ t = 359
    /\ \E b \in Items(ListOf(info, "bases")) :
          /\ b.mines = 0 /\ b.crystal > b.cost["mine"]
          /\ BuildsOn(calls, b.uid) = <<"build_mine">>

\* the first two calls on a fresh agent hold the tank tk, with stopped = False
\* and at the same position
SameTankTwice(tk) ==
    /\ nruns = 1 /\ nruns' = 2
    /\ ~tk.stopped
    /\ tk \in Items(ListOf(info, "tanks"))
    /\ tk \in Items(ListOf(info', "tanks"))

\* C4 (as claimed): two calls on a fresh agent with the same tank, unmoved and
\* not stopped, issue one set_heading on it each.
C4_HeadingEachCall ==
    [][\A tk \in Items(ListOf(info, "tanks")) :
          SameTankTwice(tk) =>
             /\ Count(calls, tk.uid, "set_heading") = 1
             /\ Count(calls', tk.uid, "set_heading") = 1]_vars

\* C4 (amended): the first of the two calls issues no set_heading on the
\* tank; the second issues exactly one when both calls return normally and
\* none when either raises.
C4_HeadingSecondCallOnly ==
    [][\A tk \in Items(ListOf(info, "tanks")) :
          SameTankTwice(tk) =>
             /\ Count(calls, tk.uid, "set_heading") = 0
             /\ Count(calls', tk.uid, "set_heading") =
                   IF raised = "none" /\ raised' = "none" THEN 1 ELSE 0]_vars

\* C4 witness: the second call on the agent has returned and has issued one
\* set_heading on a tank that is not stopped.
C4_Witness ==
    /\ nruns = 2 /\ raised = "none"
    /\ \E tk \in Items(ListOf(info, "tanks")) :
          ~tk.stopped /\ Count(calls, tk.uid, "set_heading") = 1

Enemies == EnemyTeams(info)

\* the enemy teams of highest power score
Strongest ==
    { e \in Items(Enemies) :
        \A f \in Items(Enemies) : determine_power(f) <= determine_power(e) }

\* the coordinates of the highest-scoring bases of the strongest enemies
StrongestBaseXY ==
    { <<b.x, b.y>> : b \in
        { c \in UNION { Items(Get(e, "bases")) : e \in Strongest } :
            \A e \in Strongest : \A d \in Items(Get(e, "bases")) :
                determine_base_power(d) <= determine_base_power(c) } }

JetGotos(jet) == CallsOn(calls, jet.uid, {"goto"})

C5_Body ==
    /\ (nruns > 0 /\ Enemies = <<>>) =>
          \A j \in Items(ListOf(info, "jets")) : JetGotos(j) = <<>>
    /\ (Enemies # <<>> /\ \E e \in Strongest : Get(e, "bases") # <<>>) =>
          \A j \in Items(ListOf(info, "jets")) :
              /\ Len(JetGotos(j)) = 1
              /\ JetGotos(j)[1].args \in StrongestBaseXY

\* C5: with no enemy team no jet is issued goto; with an enemy team whose
\* strongest has a base, every jet is issued goto at the coordinates of that
\* team's highest-scoring base, whatever the other enemy records contain.
C5_JetTargeting == C5_Body

\* C5, for the calls that return normally
C5_WhenReturns == raised = "none" => C5_Body

C6_Body ==
    (Enemies # <<>> /\ \A e \in Strongest : Get(e, "bases") = <<>>) =>
        \A j \in Items(ListOf(info, "jets")) :
            /\ Len(JetGotos(j)) = 1
            /\ JetGotos(j)[1].args = <<75, 75>>

\* C6: when an enemy team is present and the strongest has no bases (key
\* absent or list empty), every jet of mine is issued goto(75, 75).
C6_FallbackTarget == C6_Body

\* C6, for the calls that return normally
C6_WhenReturns == raised = "none" => C6_Body

\* the tank is tracked, not stopped, and where it was recorded
Stuck(tk) ==
    /\ tk.uid \in DOMAIN previous_positions
    /\ ~tk.stopped
    /\ tk.position = previous_positions[tk.uid]

C7_Body ==
    \A tk \in Items(ListOf(info', "tanks")) :
        LET hs == CallsOn(calls', tk.uid, {"set_heading"})
        IN  IF Stuck(tk) THEN Len(hs) = 1 /\ HeadingInRange(hs[1])
            ELSE hs = <<>>

\* C7: a tracked tank that is not stopped and has not moved is issued exactly
\* one set_heading in [0, 360); a tank that moved, is stopped or is not
\* tracked is issued none.
C7_StuckDetection == [][C7_Body]_vars

\* C7, for the calls that return normally
C7_WhenReturns == [][raised' = "none" => C7_Body]_vars

C8_Body ==
    \A sh \in Items(ListOf(info', "ships")) :
        LET cs == CallsOn(calls', sh.uid, {"set_heading", "convert_to_base"})
        IN  IF /\ sh.uid \in DOMAIN previous_positions
               /\ sh.position = previous_positions[sh.uid]
            THEN /\ Len(cs) = 1
                 /\ IF sh.owner_distance > 20 THEN cs[1].op = "convert_to_base"
                    ELSE cs[1].op = "set_heading" /\ HeadingInRange(cs[1])
            ELSE cs = <<>>

\* C8: a tracked ship that has not moved is issued exactly one command:
\* convert_to_base when farther than 20 from its owner, set_heading in
\* [0, 360) otherwise; a ship that moved or is new is issued neither.
C8_ShipStuck == [][C8_Body]_vars

\* C8, for the calls that return normally
C8_WhenReturns == [][raised' = "none" => C8_Body]_vars

SqDist(b, pos) ==
    (b.x - pos[1]) * (b.x - pos[1]) + (b.y - pos[2]) * (b.y - pos[2])

C9_Body ==
    \A tk \in Items(ListOf(info', "tanks")) :
        (/\ tk.uid \in DOMAIN previous_positions
         /\ ~tk.stopped
         /\ tk.position # previous_positions[tk.uid]
         /\ EnemyBases(info') # <<>>) =>
            \E c \in Items(CallsOn(calls', tk.uid, {"goto"})) :
                \E b \in Items(EnemyBases(info')) :
                    /\ c.args = <<b.x, b.y>>
                    /\ \A d \in Items(EnemyBases(info')) :
                          SqDist(b, tk.position) <= SqDist(d, tk.position)

\* C9: a tracked tank that is not stopped and has moved, while an enemy base
\* exists, has goto invoked with the coordinates of the nearest enemy base.
C9_GotoNearest == [][C9_Body]_vars

\* C9, for the calls that return normally
C9_WhenReturns == [][raised' = "none" => C9_Body]_vars

\* C9, for the calls that return normally and enemy bases that unpack to (x, y)
C9_WhenIterable ==
    [][(raised' = "none" /\ \A b \in Items(EnemyBases(info')) : b.iterable) => C9_Body]_vars

\* C10: after any sequence of calls every base has ntanks <= 5 and
\* nships <= 6, and each counter is the number of build_tank / build_ship
\* commands issued on the base.
C10_CountersBounded ==
    /\ DOMAIN ntanks \subseteq BaseUids
    /\ DOMAIN nships \subseteq BaseUids
    /\ \A u \in BaseUids :
          /\ Counter(ntanks, u) <= 5
          /\ Counter(nships, u) <= 6
          /\ Counter(ntanks, u) = tank_builds[u]
          /\ Counter(nships, u) = ship_builds[u]

\* C10 witness: a base that has built 5 tanks and 6 ships.
C10_Witness ==
    /\ 1 \in DOMAIN ntanks /\ ntanks[1] = 5
    /\ 1 \in DOMAIN nships /\ nships[1] = 6

====
